---- MODULE Spec2Model ----
(***************************************************************************)
(* Model of the WizardPro orchestrator.                                    *)
(*                                                                         *)
(*   Spec      the workflow engine, Orchestrator.run_workflow              *)
(*             (src/orchestrator/main.py), driving a sequence of phases    *)
(*             over a persisted ProjectContext.                            *)
(*   SpecExec  the resilient call executor, LLMTool.execute                *)
(*             (src/orchestrator/core/llm_tools.py).                       *)
(*                                                                         *)
(* The two machines share no state; each specification leaves the other    *)
(* machine's variables unchanged.                                          *)
(***************************************************************************)
EXTENDS Integers, Sequences, FiniteSets, TLC

VARIABLES
    store,      \* project_contexts/<id>.json : persisted ProjectContext per id
    ctx,        \* the local `context` of the running run_workflow call
    pc,         \* position of the running run_workflow call
    idx,        \* the local `current_phase_index`
    call,       \* observation of the running (or last) call
    result,     \* what the last call gave back to its caller
    ncalls,     \* number of run_workflow calls made so far
    done,       \* per id: the last phase has returned PhaseComplete
    completed,  \* per id: the phases whose PhaseComplete state was persisted
    x_pc,       \* LLMTool.execute: position
    x_attempt,  \* LLMTool.execute: the loop variable `attempt`
    x_out,      \* LLMTool.execute: the local `output` (text, error)
    x_last,     \* LLMTool.execute: the local `last_error`
    x_trace,    \* LLMTool.execute: outcomes of the attempts made, in order
    x_waits,    \* LLMTool.execute: the waits slept, in order
    x_hdrs,     \* LLMTool.execute: the Retry-After header of each attempt
    ph_pc,      \* Phase<k>.run: position
    ph_k,       \* Phase<k>.run: which shipped phase is running, 1..5
    ph_ctx,     \* Phase<k>.run: the `context` argument
    ph_resp,    \* Phase<k>.run: context.latest_user_response is set
    ph_entry,   \* Phase<k>.run: latest_user_response was set when run began
    ph_left,    \* Phase3.run: iterations of the refinement loop left
    ph_calls,   \* Phase<k>.run: what each _call_llm met, in order
    ph_parse,   \* Phase<k>.run: what the phase found in the parsing call's text
    ph_raw,     \* Phase<k>.run: the first call's raw text was stored in the context
    pc2,        \* position of a second run_workflow call, in another thread
    ctx2,       \* the local `context` of the second call
    idx2,       \* the local `current_phase_index` of the second call
    current_context,  \* WizardProTUI.current_context, the TUI's copy in memory
    rt_pc,      \* save/load of a context file: position
    rt_in,      \* the values of the context that is saved
    rt_file,    \* the JSON text written to the file
    rt_out      \* the values of the context that was loaded

engineVars == <<store, ctx, pc, idx, call, result, ncalls, done, completed>>
execVars == <<x_pc, x_attempt, x_out, x_last, x_trace, x_waits, x_hdrs>>
phaseVars == <<ph_pc, ph_k, ph_ctx, ph_resp, ph_entry, ph_left, ph_calls, ph_parse, ph_raw>>
secondVars == <<pc2, ctx2, idx2>>
tuiVars == <<current_context>>
codecVars == <<rt_pc, rt_in, rt_file, rt_out>>
vars == <<store, ctx, pc, idx, call, result, ncalls, done, completed,
          x_pc, x_attempt, x_out, x_last, x_trace, x_waits, x_hdrs,
          ph_pc, ph_k, ph_ctx, ph_resp, ph_entry, ph_left, ph_calls, ph_parse, ph_raw,
          pc2, ctx2, idx2, current_context, rt_pc, rt_in, rt_file, rt_out>>

(***************************************************************************)
(* Bounds                                                                  *)
(***************************************************************************)
\* number of phase classes in phase_sequence (the shipped tree has five)
NumPhases == 3
\* run_workflow calls explored in one behaviour
MaxCalls == 2
\* records (llm_call_history records and error_log entries together) that
\* the phases may add to one context
MaxAppends == 2
MaxFiles == 4
\* entries that the phases may put into one free-form map
MaxEntries == 2

(***************************************************************************)
(* ProjectContext                                                          *)
(***************************************************************************)
PhaseIdx == 0 .. (NumPhases - 1)

\* Phase.phase_name_key of the i-th class of phase_sequence
phase_name_key(i) == <<"Phase", i + 1>>

\* f"Index {current_phase_index}" of the exception handler
index_name(i) == <<"Index", i>>

\* default of ProjectContext.current_phase
Initialization == <<"Initialization">>

\* the project id of the run under observation. Every start names it: an
\* id generated by the default factory of ProjectContext.project_id is an id
\* with no file yet, which is this id before its first start.
CallerId == "run1"
Ids == {CallerId}

\* no context (None; a missing file)
NoCtx == [project_id |-> "", current_phase |-> <<>>, status |-> "",
          llm_call_history |-> <<>>, error_log |-> <<>>,
          latest_user_response |-> ""]

\* ProjectContext mutated: the new state carries a log entry
ProjectContext_logged(id) ==
    [project_id |-> id, current_phase |-> Initialization, status |-> "Pending",
     llm_call_history |-> <<>>,
     error_log |-> <<[phase |-> Initialization, level |-> "INFO"]>>,
     latest_user_response |-> ""]

\* ProjectContext(initial_request=...) with the defaults of the dataclass
ProjectContext(id) ==
    [project_id |-> id, current_phase |-> Initialization, status |-> "Pending",
     llm_call_history |-> <<>>, error_log |-> <<>>,
     latest_user_response |-> ""]

\* update_status mutated: the status is left as it was
update_status_keep(c, new_status, current_phase) ==
    [c EXCEPT !.current_phase = IF current_phase # <<>> THEN current_phase ELSE @]

update_status(c, new_status, current_phase) ==
    [c EXCEPT !.status = new_status,
              !.current_phase = IF current_phase # <<>> THEN current_phase ELSE @]

add_log_entry(c, phase, level) ==
    [c EXCEPT !.error_log = Append(@, [phase |-> phase, level |-> level])]

\* add_llm_call mutated: the history is rebuilt from the new record
add_llm_call_reset(c, rec) ==
    [c EXCEPT !.llm_call_history = <<rec>>]

add_llm_call(c, rec) ==
    [c EXCEPT !.llm_call_history = Append(@, rec)]

(***************************************************************************)
(* State store                                                             *)
(***************************************************************************)
\* Orchestrator._save_context: writes <project_id>.json; an invalid context
\* is only logged
save_context(st, c) ==
    IF c = NoCtx \/ c.project_id = "" THEN st
    ELSE [st EXCEPT ![c.project_id] = c]

\* Orchestrator._load_context mutated: a new state when the file does not
\* exist
load_context_default(st, id) ==
    IF st[id] = NoCtx THEN ProjectContext(id) ELSE st[id]

\* Orchestrator._load_context: None when the file does not exist
load_context(st, id) == st[id]

(***************************************************************************)
(* Start index on resume                                                   *)
(***************************************************************************)
\* the list phase_keys built from phase_sequence
phase_keys == [i \in 1 .. NumPhases |-> phase_name_key(i - 1)]

\* phase_keys.index(name): 0-based position, -1 standing for ValueError
KeyIndex(name) ==
    IF \E i \in PhaseIdx : phase_keys[i + 1] = name
    THEN CHOOSE i \in PhaseIdx : phase_keys[i + 1] = name
    ELSE -1

\* ResumeIndex mutated: an unknown phase name starts at the second phase
ResumeIndex_second(c) ==
    IF KeyIndex(c.current_phase) = -1 THEN 1
    ELSE IF c.status = "PhaseComplete" THEN KeyIndex(c.current_phase) + 1
    ELSE IF c.status = "Error" THEN -1
    ELSE KeyIndex(c.current_phase)

\* ResumeIndex mutated: a Complete state is given back like an Error state
ResumeIndex_terminal(c) ==
    IF KeyIndex(c.current_phase) = -1 THEN 0
    ELSE IF c.status = "PhaseComplete" THEN KeyIndex(c.current_phase) + 1
    ELSE IF c.status = "Error" \/ c.status = "Complete" THEN -1
    ELSE KeyIndex(c.current_phase)

\* ResumeIndex mutated: a completed phase is run again
ResumeIndex_same(c) ==
    IF KeyIndex(c.current_phase) = -1 THEN 0
    ELSE IF c.status = "Error" THEN -1
    ELSE KeyIndex(c.current_phase)

\* ResumeIndex mutated: every status but Error moves to the next phase
ResumeIndex_next(c) ==
    IF KeyIndex(c.current_phase) = -1 THEN 0
    ELSE IF c.status = "Error" THEN -1
    ELSE KeyIndex(c.current_phase) + 1

\* ResumeIndex mutated: an unknown phase name gives the context back
ResumeIndex_unknown(c) ==
    IF KeyIndex(c.current_phase) = -1 THEN -1
    ELSE IF c.status = "PhaseComplete" THEN KeyIndex(c.current_phase) + 1
    ELSE IF c.status = "Error" THEN -1
    ELSE KeyIndex(c.current_phase)

\* the value of current_phase_index after the try block of a resume
\* (-1 stands for the early `return context` of the Error branch)
ResumeIndex(c) ==
    IF KeyIndex(c.current_phase) = -1 THEN 0
    ELSE IF c.status = "PhaseComplete" THEN KeyIndex(c.current_phase) + 1
    ELSE IF c.status = "Error" THEN -1
    ELSE KeyIndex(c.current_phase)

(***************************************************************************)
(* Observation of a run_workflow call                                      *)
(***************************************************************************)
\* replaced: the initial save of a fresh start wrote over an existing file;
\* failed: the saves of the call that failed
NoCall == [kind |-> "none", id |-> "", request |-> "", loaded |-> NoCtx,
           invoked |-> <<>>, returns |-> <<>>, seen |-> <<>>, saves |-> 0,
           replaced |-> FALSE, failed |-> 0]

NoResult == [outcome |-> "none", ctx |-> NoCtx]

\* control returns to the caller with the value v (`return context`)
Return(v) ==
    /\ pc' = "idle"
    /\ ctx' = NoCtx
    /\ idx' = 0
    /\ result' = [outcome |-> "returned", ctx |-> v]

\* control returns to the caller with an exception of type e
Raise(e) ==
    /\ pc' = "idle"
    /\ ctx' = NoCtx
    /\ idx' = 0
    /\ result' = [outcome |-> e, ctx |-> NoCtx]

(***************************************************************************)
(* Orchestrator.run_workflow, up to the main loop                          *)
(***************************************************************************)
\* the statuses a phase may leave in the context it returns: the three of
\* the phase contract, "Running" (Phase2.run and Phase4.run return without
\* a status update when the first call fails) and "Complete" (Phase5.run)
PhaseRet == {"PhaseComplete", "NeedsUserInput", "Error", "Running", "Complete"}

\* resume=True: load, find the start index, return early or enter the loop.
\* keysOk: the constructors called to build phase_keys succeed; a failing
\* constructor raises an exception that is not a ValueError.
run_workflow_resume(project_id, keysOk) ==
    /\ pc = "idle"
    /\ ncalls < MaxCalls
    /\ ncalls' = ncalls + 1
    /\ UNCHANGED <<store, done, completed>>
    /\ IF project_id = ""
       THEN /\ Raise("ValueError")
            /\ call' = [NoCall EXCEPT !.kind = "resume"]
       ELSE LET c == load_context(store, project_id)
                i == ResumeIndex(c)
                obs == [NoCall EXCEPT !.kind = "resume", !.id = project_id,
                                      !.loaded = c]
            IN  /\ call' = obs
                /\ IF c = NoCtx THEN Raise("FileNotFoundError")
                   ELSE IF ~keysOk THEN Raise("Exception")
                   ELSE IF i = -1 THEN Return(c)
                   ELSE IF i >= NumPhases
                        THEN Return(IF c.status # "Error"
                                    THEN update_status(c, "Complete", <<>>)
                                    ELSE c)
                   ELSE /\ pc' = "loop"
                        /\ ctx' = c
                        /\ idx' = i
                        /\ result' = NoResult

\* the context of a fresh start, mutated: an existing file is loaded
fresh_context_reuse(st, id) ==
    IF st[id] # NoCtx THEN st[id] ELSE ProjectContext(id)

\* the context of a fresh start: always a new ProjectContext, whatever the
\* store holds
fresh_context(st, id) == ProjectContext(id)

\* resume=False: create the context, save it, enter the loop at index 0
run_workflow_fresh(initial_user_request, project_id) ==
    /\ pc = "idle"
    /\ ncalls < MaxCalls
    /\ ncalls' = ncalls + 1
    /\ IF initial_user_request = ""
       THEN /\ Raise("ValueError")
            /\ call' = [NoCall EXCEPT !.kind = "fresh"]
            /\ UNCHANGED <<store, done, completed>>
       ELSE LET id == project_id
                c == fresh_context(store, id)
            IN  /\ store' = save_context(store, c)
                /\ done' = [done EXCEPT ![id] = FALSE]
                /\ completed' = [completed EXCEPT ![id] = {}]
                /\ call' = [NoCall EXCEPT !.kind = "fresh", !.id = id,
                                          !.request = initial_user_request,
                                          !.saves = 1,
                                          !.replaced = (store[id] # NoCtx)]
                /\ IF 0 >= NumPhases
                   THEN Return(update_status(c, "Complete", <<>>))
                   ELSE /\ pc' = "loop"
                        /\ ctx' = c
                        /\ idx' = 0
                        /\ result' = NoResult

(***************************************************************************)
(* Orchestrator.run_workflow, the main loop                                *)
(***************************************************************************)
\* the body of `except Exception` at the loop level, mutated: the error
\* log is left alone
except_handler_nolog(c, name) ==
    update_status(c, "Error", name)

\* the body of `except Exception` at the loop level
except_handler(c, name) ==
    update_status(add_log_entry(c, name, "CRITICAL"), "Error", name)

\* phase_class(self.prompt_manager, self.llm_factory); a failing
\* constructor lands in the handler with phase_instance = None
\* (position "raised_init")
instantiate_phase(ok) ==
    /\ pc = "loop"
    /\ idx < NumPhases
    /\ pc' = IF ok THEN "run" ELSE "raised_init"
    /\ UNCHANGED <<store, ctx, idx, call, result, ncalls, done, completed>>

\* the records the phases have added to the context c
PhaseAppends(c) ==
    Len(c.llm_call_history)
    + Cardinality({k \in 1 .. Len(c.error_log) : c.error_log[k].level = "ERROR"})

\* phase_instance.run(context): the phase names itself and sets Running,
\* makes h calls and l log entries, then leaves the status `out` or raises;
\* the first phase of the sequence uses up a waiting user response
phase_run(out, h, l) ==
    /\ pc = "run"
    /\ PhaseAppends(ctx) + h + l <= MaxAppends
    /\ LET name == phase_name_key(idx)
           c1 == [update_status(ctx, "Running", name) EXCEPT
                      !.latest_user_response = IF idx = 0 THEN "" ELSE @]
           c2 == IF h = 1 THEN add_llm_call(c1, name) ELSE c1
           c3 == IF l = 1 THEN add_log_entry(c2, name, "ERROR") ELSE c2
       IN  /\ call' = [call EXCEPT !.invoked = Append(@, idx),
                                   !.returns = Append(@, out),
                                   !.seen = Append(@, ctx.latest_user_response)]
           /\ IF out = "raise"
              THEN /\ ctx' = c3
                   /\ pc' = "raised"
                   /\ UNCHANGED done
              ELSE /\ ctx' = IF out = "Running" THEN c3
                             ELSE update_status(c3, out, name)
                   /\ pc' = "returned"
                   /\ done' = IF out = "PhaseComplete" /\ idx = NumPhases - 1
                              THEN [done EXCEPT ![ctx.project_id] = TRUE]
                              ELSE done
    /\ UNCHANGED <<store, idx, result, ncalls, completed>>

\* current_phase_index == len(self.phase_sequence), mutated: one too early
is_last_phase_early(i) == i = NumPhases - 1

\* current_phase_index == len(self.phase_sequence), tested after the
\* increment that follows PhaseComplete
is_last_phase(i) == i = NumPhases

\* the save after the phase attempt, mutated: left out
save_after_phase_skip ==
    /\ pc = "returned"
    /\ pc' = "saved"
    /\ UNCHANGED <<store, call, ctx, idx, result, ncalls, done, completed>>

\* self._save_context(context) right after run returned
save_after_phase ==
    /\ pc = "returned"
    /\ store' = save_context(store, ctx)
    /\ completed' = IF ctx.status = "PhaseComplete"
                     THEN [completed EXCEPT ![ctx.project_id] = @ \cup {idx}]
                     ELSE completed
    /\ call' = [call EXCEPT !.saves = @ + 1]
    /\ pc' = "saved"
    /\ UNCHANGED <<ctx, idx, result, ncalls, done>>

\* the context with which the if/elif chain on context.status leaves the
\* loop: Error and NeedsUserInput as the phase left them, any status other
\* than PhaseComplete turned into Error under the phase's name
halt_context(c, name) ==
    IF c.status = "Error" \/ c.status = "NeedsUserInput" THEN c
    ELSE update_status(c, "Error", name)

\* the if/elif chain on context.status, mutated: NeedsUserInput moves on to
\* the next phase as PhaseComplete does
check_status_continue ==
    /\ pc = "saved"
    /\ UNCHANGED <<ncalls, done, completed>>
    /\ IF ctx.status = "Error"
       THEN /\ Return(ctx)
            /\ UNCHANGED <<store, call>>
       ELSE IF ctx.status = "PhaseComplete" \/ ctx.status = "NeedsUserInput"
       THEN LET i == idx + 1
                c == IF is_last_phase(i) THEN update_status(ctx, "Complete", <<>>)
                     ELSE ctx
            IN  /\ store' = IF is_last_phase(i) THEN save_context(store, c) ELSE store
                /\ call' = IF is_last_phase(i) THEN [call EXCEPT !.saves = @ + 1]
                           ELSE call
                /\ IF i < NumPhases
                   THEN /\ idx' = i
                        /\ ctx' = c
                        /\ pc' = "loop"
                        /\ UNCHANGED result
                   ELSE Return(c)
       ELSE LET c == update_status(ctx, "Error", phase_name_key(idx))
            IN  /\ store' = save_context(store, c)
                /\ call' = [call EXCEPT !.saves = @ + 1]
                /\ Return(c)

\* the if/elif chain on context.status, mutated: a status the engine does
\* not know is left alone and the phase is run again
check_status_rerun ==
    /\ pc = "saved"
    /\ UNCHANGED <<ncalls, done, completed>>
    /\ IF ctx.status = "Error" \/ ctx.status = "NeedsUserInput"
       THEN /\ Return(ctx)
            /\ UNCHANGED <<store, call>>
       ELSE IF ctx.status = "PhaseComplete"
       THEN LET i == idx + 1
                c == IF is_last_phase(i) THEN update_status(ctx, "Complete", <<>>)
                     ELSE ctx
            IN  /\ store' = IF is_last_phase(i) THEN save_context(store, c) ELSE store
                /\ call' = IF is_last_phase(i) THEN [call EXCEPT !.saves = @ + 1]
                           ELSE call
                /\ IF i < NumPhases
                   THEN /\ idx' = i
                        /\ ctx' = c
                        /\ pc' = "loop"
                        /\ UNCHANGED result
                   ELSE Return(c)
       ELSE /\ pc' = "loop"
            /\ UNCHANGED <<store, ctx, idx, call, result>>

\* the if/elif chain on context.status; after PhaseComplete the index moves
\* on and the while condition decides whether the loop goes on
check_status ==
    /\ pc = "saved"
    /\ UNCHANGED <<ncalls, done, completed>>
    /\ IF ctx.status = "Error" \/ ctx.status = "NeedsUserInput"
       THEN /\ Return(halt_context(ctx, phase_name_key(idx)))
            /\ UNCHANGED <<store, call>>
       ELSE IF ctx.status = "PhaseComplete"
       THEN LET i == idx + 1
                c == IF is_last_phase(i) THEN update_status(ctx, "Complete", <<>>)
                     ELSE ctx
            IN  /\ store' = IF is_last_phase(i) THEN save_context(store, c) ELSE store
                /\ call' = IF is_last_phase(i) THEN [call EXCEPT !.saves = @ + 1]
                           ELSE call
                /\ IF i < NumPhases
                   THEN /\ idx' = i
                        /\ ctx' = c
                        /\ pc' = "loop"
                        /\ UNCHANGED result
                   ELSE Return(c)
       ELSE LET c == halt_context(ctx, phase_name_key(idx))
            IN  /\ store' = save_context(store, c)
                /\ call' = [call EXCEPT !.saves = @ + 1]
                /\ Return(c)

\* the name the handler logs: the phase's own name when phase_instance is
\* set, "Index <n>" when the constructor raised
phase_name_for_log ==
    IF pc = "raised" THEN phase_name_key(idx) ELSE index_name(idx)

\* an exception escaped the constructor or phase_instance.run
phase_raised ==
    /\ pc \in {"raised", "raised_init"}
    /\ UNCHANGED <<ncalls, done, completed>>
    /\ LET c == except_handler(ctx, phase_name_for_log)
       IN  /\ store' = save_context(store, c)
           /\ call' = [call EXCEPT !.saves = @ + 1]
           /\ Return(c)

\* the process is interrupted while run_workflow is running: everything in
\* memory is lost, the files stay as they are
crash ==
    /\ pc # "idle"
    /\ pc' = "idle"
    /\ ctx' = NoCtx
    /\ idx' = 0
    /\ call' = NoCall
    /\ result' = [outcome |-> "crashed", ctx |-> NoCtx]
    /\ UNCHANGED <<store, ncalls, done, completed>>

(***************************************************************************)
(* Specification of the engine                                             *)
(***************************************************************************)
ExecIdle ==
    /\ x_pc = "idle"
    /\ x_attempt = 0
    /\ x_out = [text |-> 0, raw_response |-> 0, finish_reason |-> 0,
                error |-> "None", latency_ms |-> "None"]
    /\ x_last = "None"
    /\ x_trace = <<>>
    /\ x_waits = <<>>
    /\ x_hdrs = <<>>

EngineIdle ==
    /\ store = [id \in Ids |-> NoCtx]
    /\ ctx = NoCtx
    /\ pc = "idle"
    /\ idx = 0
    /\ call = NoCall
    /\ result = NoResult
    /\ ncalls = 0
    /\ done = [id \in Ids |-> FALSE]
    /\ completed = [id \in Ids |-> {}]

\* no shipped phase is running
PhaseIdle ==
    /\ ph_pc = "idle"
    /\ ph_k = 0
    /\ ph_ctx = NoCtx
    /\ ph_resp = FALSE
    /\ ph_entry = FALSE
    /\ ph_left = 0
    /\ ph_calls = <<>>
    /\ ph_parse = "none"
    /\ ph_raw = FALSE

\* no second call is running
SecondIdle ==
    /\ pc2 = "idle"
    /\ ctx2 = NoCtx
    /\ idx2 = 0

\* the TUI holds no context
(***************************************************************************)
(* The context file: EnhancedJSONEncoder, json_object_hook                 *)
(***************************************************************************)
\* Python values held by a context; s is the value's text, m the entries
\* <<key, value>> of a dict in insertion order
PyStr(s) == [t |-> "str", s |-> s, m |-> <<>>]
PyTrue == [t |-> "bool", s |-> "True", m |-> <<>>]
PyDate(s) == [t |-> "date", s |-> s, m |-> <<>>]
PyDateTime(s) == [t |-> "datetime", s |-> s, m |-> <<>>]
PyUUID(s) == [t |-> "UUID", s |-> s, m |-> <<>>]
PyDict(entries) == [t |-> "dict", s |-> "", m |-> entries]
PyNone == [t |-> "None", s |-> "", m |-> <<>>]

\* an exception leaving json.load
PyRaise == [t |-> "raise", s |-> "", m |-> <<>>]

\* JSON values of the file
JString(s) == [t |-> "string", s |-> s, m |-> <<>>]
JTrue == [t |-> "true", s |-> "", m |-> <<>>]
JObject(entries) == [t |-> "object", s |-> "", m |-> entries]
NoFile == [t |-> "missing", s |-> "", m |-> <<>>]

\* the texts of one date, of one time of that day and of one UUID
IsoDate == "2024-01-01"
IsoDateTime == "2024-01-01T10:00:00"
IsoMidnight == "2024-01-01T00:00:00"
UuidText == "12345678-1234-5678-1234-567812345678"

\* o.isoformat() and str(o): the text of the value
isoformat(o) == o.s

\* datetime.datetime.fromisoformat(text): a date without a time reads as
\* midnight of that day; "ValueError" for a text that is not ISO 8601
fromisoformat(text) ==
    IF text = IsoDate THEN PyDateTime(IsoMidnight)
    ELSE IF text \in {IsoDateTime, IsoMidnight} THEN PyDateTime(text)
    ELSE PyStr("ValueError")

\* uuid.UUID(text)
UUID(text) == IF text = UuidText THEN PyUUID(text) ELSE PyStr("ValueError")

\* EnhancedJSONEncoder.default: a date and a datetime get the same tag
default(o) ==
    IF o.t \in {"date", "datetime"}
    THEN JObject(<< <<"__datetime__", JTrue>>, <<"value", JString(isoformat(o))>> >>)
    ELSE IF o.t = "UUID"
    THEN JObject(<< <<"__uuid__", JTrue>>, <<"value", JString(o.s)>> >>)
    ELSE JString(o.s)

\* json.dump(context_dict, f, cls=EnhancedJSONEncoder)
RECURSIVE json_dump(_)
json_dump(o) ==
    IF o.t = "str" THEN JString(o.s)
    ELSE IF o.t = "bool" THEN JTrue
    ELSE IF o.t = "dict"
    THEN JObject([i \in 1 .. Len(o.m) |-> <<o.m[i][1], json_dump(o.m[i][2])>>])
    ELSE default(o)

\* `key in dct` and dct[key]
HasKey(dct, key) == \E i \in 1 .. Len(dct.m) : dct.m[i][1] = key
GetKey(dct, key) == dct.m[CHOOSE i \in 1 .. Len(dct.m) : dct.m[i][1] = key][2]

\* dct["value"] handed to a parser of text: KeyError without the key, and
\* an error other than ValueError when the value is not a str
ValueText(dct) ==
    IF ~HasKey(dct, "value") THEN PyRaise
    ELSE IF GetKey(dct, "value").t # "str" THEN PyRaise
    ELSE GetKey(dct, "value")

\* json_object_hook: only ValueError is caught
json_object_hook(dct) ==
    IF HasKey(dct, "__datetime__")
    THEN IF ValueText(dct) = PyRaise THEN PyRaise
         ELSE IF fromisoformat(ValueText(dct).s) = PyStr("ValueError") THEN dct
         ELSE fromisoformat(ValueText(dct).s)
    ELSE IF HasKey(dct, "__uuid__")
    THEN IF ValueText(dct) = PyRaise THEN PyRaise
         ELSE IF UUID(ValueText(dct).s) = PyStr("ValueError") THEN dct
         ELSE UUID(ValueText(dct).s)
    ELSE dct

\* json.load(f, object_hook=json_object_hook): the hook is applied to every
\* object, the innermost first
RECURSIVE json_load(_)
json_load(j) ==
    IF j.t = "string" THEN PyStr(j.s)
    ELSE IF j.t = "true" THEN PyTrue
    ELSE LET members == [i \in 1 .. Len(j.m) |-> <<j.m[i][1], json_load(j.m[i][2])>>]
         IN  IF \E i \in 1 .. Len(members) : members[i][2] = PyRaise
             THEN PyRaise
             ELSE json_object_hook(PyDict(members))

\* context.to_dict() of a context whose knowledge_graph holds `entries`
to_dict(entries) ==
    PyDict(<< <<"project_id", PyStr("p1")>>,
              <<"status", PyStr("Pending")>>,
              <<"knowledge_graph", PyDict(entries)>> >>)

\* the entries of knowledge_graph in a context's dict
knowledge_graph(d) == GetKey(d, "knowledge_graph")

\* the keys and the values a phase can put into the free-form map
MapKeys == <<"__datetime__", "__uuid__", "a", "value">>

MapValues ==
    {PyStr("text"), PyStr(IsoDate), PyStr(IsoDateTime), PyStr(UuidText), PyTrue,
     PyDate(IsoDate), PyDateTime(IsoDateTime), PyUUID(UuidText),
     PyDict(<< <<"a", PyDate(IsoDate)>> >>),
     PyDict(<< <<"__uuid__", PyTrue>>, <<"value", PyStr(UuidText)>> >>)}

KeyPos(key) == CHOOSE i \in 1 .. Len(MapKeys) : MapKeys[i] = key

TuiIdle == current_context = NoCtx

\* nothing is being saved or loaded
CodecIdle ==
    /\ rt_pc = "idle"
    /\ rt_in = to_dict(<<>>)
    /\ rt_file = NoFile
    /\ rt_out = PyNone

Init ==
    EngineIdle /\ ExecIdle /\ PhaseIdle /\ SecondIdle /\ TuiIdle /\ CodecIdle

Next ==
    \/ \E id \in {""} \cup Ids, k \in BOOLEAN :
            run_workflow_resume(id, k) /\ UNCHANGED <<execVars, phaseVars, secondVars, tuiVars, codecVars>>
    \/ \E r \in {"", "req"}, id \in Ids :
            run_workflow_fresh(r, id) /\ UNCHANGED <<execVars, phaseVars, secondVars, tuiVars, codecVars>>
    \/ \E ok \in BOOLEAN : instantiate_phase(ok) /\ UNCHANGED <<execVars, phaseVars, secondVars, tuiVars, codecVars>>
    \/ \E out \in PhaseRet \cup {"raise"}, h \in {0, 1}, l \in {0, 1} :
            phase_run(out, h, l) /\ UNCHANGED <<execVars, phaseVars, secondVars, tuiVars, codecVars>>
    \/ save_after_phase /\ UNCHANGED <<execVars, phaseVars, secondVars, tuiVars, codecVars>>
    \/ check_status /\ UNCHANGED <<execVars, phaseVars, secondVars, tuiVars, codecVars>>
    \/ phase_raised /\ UNCHANGED <<execVars, phaseVars, secondVars, tuiVars, codecVars>>
    \/ crash /\ UNCHANGED <<execVars, phaseVars, secondVars, tuiVars, codecVars>>

Spec == Init /\ [][Next]_vars

(***************************************************************************)
(* A second run_workflow(resume=True) call from another thread or process, *)
(* issued while a call on the same run identifier is in progress           *)
(***************************************************************************)
\* the statuses the phases of the second call leave
SecondRet == {"PhaseComplete", "NeedsUserInput", "Error"}

\* run_workflow(project_id, resume=True) entered by the second caller while
\* the first call is between its entry and its return; nothing in
\* run_workflow looks at whether another call is running
second_run_workflow_resume(project_id) ==
    /\ pc # "idle"
    /\ call.id = project_id
    /\ pc2 = "idle"
    /\ ncalls < MaxCalls
    /\ ncalls' = ncalls + 1
    /\ LET c == load_context(store, project_id)
           i == ResumeIndex(c)
       IN  IF c = NoCtx \/ i = -1 \/ i >= NumPhases
           THEN UNCHANGED secondVars
           ELSE /\ pc2' = "loop"
                /\ ctx2' = c
                /\ idx2' = i
    /\ UNCHANGED <<store, ctx, pc, idx, call, result, done, completed>>

\* the second call constructs its phase; a failing constructor ends the
\* call in the handler
second_instantiate_phase(ok) ==
    /\ pc2 = "loop"
    /\ idx2 < NumPhases
    /\ IF ok
       THEN /\ pc2' = "run"
            /\ UNCHANGED <<store, ctx2, idx2>>
       ELSE /\ store' = save_context(store, except_handler(ctx2, index_name(idx2)))
            /\ pc2' = "idle"
            /\ ctx2' = NoCtx
            /\ idx2' = 0
    /\ UNCHANGED <<ctx, pc, idx, call, result, ncalls, done, completed>>

\* the phase of the second call returns; the call saves the state and
\* follows the status chain
second_phase_run(out) ==
    /\ pc2 = "run"
    /\ LET name == phase_name_key(idx2)
           c == update_status(ctx2, out, name)
           i == idx2 + 1
           last == out = "PhaseComplete" /\ is_last_phase(i)
           cf == IF last THEN update_status(c, "Complete", <<>>) ELSE c
       IN  /\ store' = save_context(store, cf)
           /\ done' = IF last THEN [done EXCEPT ![c.project_id] = TRUE] ELSE done
           /\ completed' = IF out = "PhaseComplete"
                            THEN [completed EXCEPT ![c.project_id] = @ \cup {idx2}]
                            ELSE completed
           /\ IF out = "PhaseComplete" /\ i < NumPhases
              THEN /\ pc2' = "loop"
                   /\ ctx2' = c
                   /\ idx2' = i
              ELSE /\ pc2' = "idle"
                   /\ ctx2' = NoCtx
                   /\ idx2' = 0
    /\ UNCHANGED <<ctx, pc, idx, call, result, ncalls>>

NextSecond ==
    \/ Next
    \/ \E id \in Ids :
            second_run_workflow_resume(id) /\ UNCHANGED <<execVars, phaseVars, tuiVars, codecVars>>
    \/ \E ok \in BOOLEAN :
            second_instantiate_phase(ok) /\ UNCHANGED <<execVars, phaseVars, tuiVars, codecVars>>
    \/ \E out \in SecondRet :
            second_phase_run(out) /\ UNCHANGED <<execVars, phaseVars, tuiVars, codecVars>>

SpecSecond == Init /\ [][NextSecond]_vars

(***************************************************************************)
(* WizardProTUI: the buttons and the worker that calls run_workflow        *)
(***************************************************************************)
\* the texts a user types into the response area
Responses == {"answer"}

\* final_context.status == "NeedsUserInput" after run_workflow returned
Returned_NeedsUserInput ==
    /\ pc = "idle"
    /\ result.outcome = "returned"
    /\ result.ctx.status = "NeedsUserInput"

\* on_button_pressed, start-button: a worker calls run_workflow without
\* resume; the button is disabled while a worker runs or a question waits
tui_start(initial_request, project_id) ==
    /\ pc = "idle"
    /\ current_context.status # "NeedsUserInput"
    /\ initial_request # ""
    /\ run_workflow_fresh(initial_request, project_id)
    /\ UNCHANGED current_context

\* run_orchestrator_worker after run_workflow returned NeedsUserInput:
\* prompt_for_user_input keeps the returned context and shows the question
tui_prompt ==
    /\ Returned_NeedsUserInput
    /\ current_context # result.ctx
    /\ current_context' = result.ctx
    /\ UNCHANGED engineVars

\* on_button_pressed, submit-response-button: the response is put into the
\* context the TUI holds in memory, then a worker calls run_workflow with
\* resume=True and the project id only
tui_submit(response_text, keysOk) ==
    /\ pc = "idle"
    /\ response_text # ""
    /\ current_context # NoCtx
    /\ current_context.status = "NeedsUserInput"
    /\ current_context' = [current_context EXCEPT
                               !.latest_user_response = response_text,
                               !.status = "Resuming"]
    /\ run_workflow_resume(current_context.project_id, keysOk)

NextTui ==
    \/ \E id \in Ids :
            tui_start("req", id) /\ UNCHANGED <<execVars, phaseVars, secondVars, codecVars>>
    \/ tui_prompt /\ UNCHANGED <<execVars, phaseVars, secondVars, codecVars>>
    \/ \E t \in Responses, k \in BOOLEAN :
            tui_submit(t, k) /\ UNCHANGED <<execVars, phaseVars, secondVars, codecVars>>
    \/ \E ok \in BOOLEAN :
            instantiate_phase(ok)
                /\ UNCHANGED <<execVars, phaseVars, secondVars, tuiVars, codecVars>>
    \/ \E out \in PhaseRet \cup {"raise"}, h \in {0, 1}, l \in {0, 1} :
            phase_run(out, h, l)
                /\ UNCHANGED <<execVars, phaseVars, secondVars, tuiVars, codecVars>>
    \/ save_after_phase /\ UNCHANGED <<execVars, phaseVars, secondVars, tuiVars, codecVars>>
    \/ check_status /\ UNCHANGED <<execVars, phaseVars, secondVars, tuiVars, codecVars>>
    \/ phase_raised /\ UNCHANGED <<execVars, phaseVars, secondVars, tuiVars, codecVars>>

SpecTui == Init /\ [][NextTui]_vars

(***************************************************************************)
(* run_workflow when the save after a phase fails                          *)
(***************************************************************************)
\* the save after the phase attempt, mutated: the failure is raised
save_after_phase_failed_raises(intact) ==
    /\ pc = "returned"
    /\ store' = IF intact THEN store ELSE [store EXCEPT ![ctx.project_id] = NoCtx]
    /\ call' = [call EXCEPT !.failed = @ + 1]
    /\ Raise("IOError")
    /\ UNCHANGED <<ncalls, done, completed>>

\* self._save_context(context) right after run returned, when
\* save_project_context returns False: the failure is logged and nothing
\* else; the file is as it was (intact) or, when the write broke off after
\* open() truncated it, no longer loadable
save_after_phase_failed(intact) ==
    /\ pc = "returned"
    /\ store' = IF intact THEN store ELSE [store EXCEPT ![ctx.project_id] = NoCtx]
    /\ call' = [call EXCEPT !.failed = @ + 1]
    /\ pc' = "saved"
    /\ UNCHANGED <<ctx, idx, result, ncalls, done, completed>>

NextSaveFail ==
    \/ \E id \in Ids, k \in BOOLEAN :
            run_workflow_resume(id, k) /\ UNCHANGED <<execVars, phaseVars, secondVars, tuiVars, codecVars>>
    \/ \E id \in Ids : run_workflow_fresh("req", id) /\ UNCHANGED <<execVars, phaseVars, secondVars, tuiVars, codecVars>>
    \/ \E ok \in BOOLEAN : instantiate_phase(ok) /\ UNCHANGED <<execVars, phaseVars, secondVars, tuiVars, codecVars>>
    \/ \E out \in PhaseRet \cup {"raise"} : phase_run(out, 0, 0) /\ UNCHANGED <<execVars, phaseVars, secondVars, tuiVars, codecVars>>
    \/ save_after_phase /\ UNCHANGED <<execVars, phaseVars, secondVars, tuiVars, codecVars>>
    \/ \E intact \in BOOLEAN : save_after_phase_failed(intact) /\ UNCHANGED <<execVars, phaseVars, secondVars, tuiVars, codecVars>>
    \/ check_status /\ UNCHANGED <<execVars, phaseVars, secondVars, tuiVars, codecVars>>
    \/ phase_raised /\ UNCHANGED <<execVars, phaseVars, secondVars, tuiVars, codecVars>>

SpecSaveFail == Init /\ [][NextSaveFail]_vars

(***************************************************************************)
(* Saving a context and loading it again                                   *)
(***************************************************************************)
\* a phase sets knowledge_graph[key] = value; the keys come in the order of
\* MapKeys
put_knowledge(key, value) ==
    /\ rt_pc = "idle"
    /\ Len(knowledge_graph(rt_in).m) < MaxEntries
    /\ \A i \in 1 .. Len(knowledge_graph(rt_in).m) :
          KeyPos(knowledge_graph(rt_in).m[i][1]) < KeyPos(key)
    /\ rt_in' = to_dict(Append(knowledge_graph(rt_in).m, <<key, value>>))
    /\ UNCHANGED <<rt_pc, rt_file, rt_out>>

\* save_project_context: the file holds the dump of context.to_dict()
save_project_context ==
    /\ rt_pc = "idle"
    /\ rt_file' = json_dump(rt_in)
    /\ rt_pc' = "saved"
    /\ UNCHANGED <<rt_in, rt_out>>

\* load_project_context: None when json.load raises, else the context made
\* from the loaded dict
load_project_context ==
    /\ rt_pc = "saved"
    /\ rt_out' = IF json_load(rt_file) = PyRaise THEN PyNone ELSE json_load(rt_file)
    /\ rt_pc' = "loaded"
    /\ UNCHANGED <<rt_in, rt_file>>

NextCodec ==
    \/ \E i \in 1 .. Len(MapKeys), v \in MapValues :
            put_knowledge(MapKeys[i], v) /\ UNCHANGED <<engineVars, execVars, phaseVars, secondVars, tuiVars>>
    \/ save_project_context /\ UNCHANGED <<engineVars, execVars, phaseVars, secondVars, tuiVars>>
    \/ load_project_context /\ UNCHANGED <<engineVars, execVars, phaseVars, secondVars, tuiVars>>

SpecCodec == Init /\ [][NextCodec]_vars

(***************************************************************************)
(* LLMTool.execute                                                         *)
(***************************************************************************)
MAX_RETRIES == 3
INITIAL_BACKOFF_SECS == 1
MAX_BACKOFF_SECS == 10
RATE_LIMIT_WAIT_SECS == 25

Min(a, b) == IF a <= b THEN a ELSE b
Max(a, b) == IF a >= b THEN a ELSE b

\* what one call of _execute_api_call can do:
\*   "ok"       returns an LLMOutput without error
\*   "logical"  returns an LLMOutput whose error is set
\*   "429" "5xx" "4xx"  raises HTTPError with a response of that status
\*   "noresp"   raises HTTPError whose response is None
\*   "timeout"  raises requests.exceptions.Timeout
\*   "conn"     raises another RequestException
\*   "notimpl"  raises NotImplementedError
\*   "other"    raises any other exception
Retryable == {"429", "5xx", "noresp", "timeout", "conn"}
Kinds == {"ok", "logical", "4xx", "notimpl", "other"} \cup Retryable

\* the Retry-After header of a 429 response: -1 absent, -2 present but not
\* an integer, otherwise the integer int() reads from it
RetryAfter == {-1, -2, 0, 30, -5}

\* backoff mutated: the wait grows by one second per attempt
backoff_linear(attempt) ==
    Min(INITIAL_BACKOFF_SECS * (attempt + 1), MAX_BACKOFF_SECS)

\* min(INITIAL_BACKOFF_SECS * (2 ** attempt), MAX_BACKOFF_SECS); the random
\* jitter added to it is left out
backoff(attempt) == Min(INITIAL_BACKOFF_SECS * (2 ^ attempt), MAX_BACKOFF_SECS)

\* rate_limit_wait mutated: the header is not looked at
rate_limit_wait_nohint(attempt, retry_after) ==
    Max(backoff(attempt), RATE_LIMIT_WAIT_SECS)

\* wait_time of the 429 branch, jitter left out
rate_limit_wait(attempt, retry_after) ==
    IF retry_after \notin {-1, -2} THEN retry_after
    ELSE IF retry_after = -2 THEN RATE_LIMIT_WAIT_SECS * (attempt + 1)
    ELSE Max(backoff(attempt), RATE_LIMIT_WAIT_SECS)

\* wait_time before the next attempt after a retryable failure
wait_time(kind, attempt, retry_after) ==
    IF kind = "429" THEN rate_limit_wait(attempt, retry_after)
    ELSE backoff(attempt)

\* time.sleep(wait_time) raises ValueError for a negative length; it is
\* called inside the except clause, so no clause of the try catches it
sleep_raises(w) == w < 0

\* LLMOutput(text="", ...) created before the loop; 0 is the empty text and
\* the None of raw_response and finish_reason
NewOutput ==
    [text |-> 0, raw_response |-> 0, finish_reason |-> 0,
     error |-> "None", latency_ms |-> "None"]

\* the text, raw payload and finish reason returned by the attempt numbered a
TextOf(a) == a + 1

\* `output` after the try body or the except clause of one iteration;
\* an attempt that returns copies its text whether or not it reports an error
after_attempt(out, kind, attempt) ==
    IF kind = "ok"
    THEN [out EXCEPT !.text = TextOf(attempt), !.raw_response = TextOf(attempt),
                     !.finish_reason = TextOf(attempt), !.error = "None"]
    ELSE IF kind = "logical"
    THEN [out EXCEPT !.text = TextOf(attempt), !.raw_response = TextOf(attempt),
                     !.finish_reason = TextOf(attempt), !.error = "tool error"]
    ELSE IF kind = "4xx" THEN [out EXCEPT !.error = "API Request Failed"]
    ELSE IF kind = "notimpl" THEN [out EXCEPT !.error = "not implemented"]
    ELSE IF kind = "other" THEN [out EXCEPT !.error = "Unexpected error"]
    ELSE out

\* `last_error` after one iteration
after_attempt_last_error(last, kind) ==
    IF kind = "ok" THEN "None"
    ELSE IF kind = "logical" THEN last
    ELSE IF kind = "4xx" THEN "HTTPError"
    ELSE kind

\* is_last_attempt mutated: the last attempt is not recognised
is_last_attempt_late(attempt) == attempt = MAX_RETRIES + 1

\* is_last_attempt = (attempt == self.MAX_RETRIES)
is_last_attempt(attempt) == attempt = MAX_RETRIES

\* attempt is a value of range(self.MAX_RETRIES + 1)
in_range(attempt) == attempt < MAX_RETRIES + 1

\* breaks mutated: an unexpected exception is retried like a server error
breaks_retryother(kind, attempt) ==
    \/ kind \notin (Retryable \cup {"other"})
    \/ is_last_attempt(attempt)

\* breaks mutated: a client error (4xx) is retried like a server error
breaks_retry4xx(kind, attempt) ==
    \/ kind \notin (Retryable \cup {"4xx"})
    \/ is_last_attempt(attempt)

\* the iteration leaves the loop with break: every outcome but a retryable
\* failure breaks, and a retryable failure breaks on the last attempt
breaks(kind, attempt) ==
    \/ kind \notin Retryable
    \/ is_last_attempt(attempt)

\* after_loop mutated: the message of exhausted retries is never set
after_loop_silent(out, attempt, last) ==
    [out EXCEPT !.latency_ms = "measured"]

\* the code after the loop: latency, and the message of exhausted retries
after_loop(out, attempt, last) ==
    LET o == [out EXCEPT !.latency_ms = "measured"]
    IN  IF attempt = MAX_RETRIES /\ o.error = "None"
        THEN IF last # "None"
             THEN [o EXCEPT !.error = "failed after attempts"]
             ELSE [o EXCEPT !.error = "failed (Unknown final error)"]
        ELSE o

\* entry of execute: without an API key it returns at once
execute_begin(has_key) ==
    /\ x_pc = "idle"
    /\ IF has_key
       THEN /\ x_pc' = "attempt"
            /\ x_out' = NewOutput
       ELSE /\ x_pc' = "done"
            /\ x_out' = [NewOutput EXCEPT !.error = "API key missing"]
    /\ x_attempt' = 0
    /\ x_last' = "None"
    /\ x_trace' = <<>>
    /\ x_waits' = <<>>
    /\ x_hdrs' = <<>>

\* one iteration of the retry loop: the call of _execute_api_call and the
\* handling of what it did; then the break, or the sleep followed by the
\* next value of the range; the code after the loop runs when the loop ends
execute_attempt(kind, retry_after) ==
    /\ x_pc = "attempt"
    /\ x_trace' = Append(x_trace, kind)
    /\ x_hdrs' = Append(x_hdrs, retry_after)
    /\ LET out == after_attempt(x_out, kind, x_attempt)
           last == after_attempt_last_error(x_last, kind)
           w == wait_time(kind, x_attempt, retry_after)
       IN  /\ x_last' = last
           /\ x_waits' = IF breaks(kind, x_attempt) THEN x_waits
                         ELSE Append(x_waits, w)
           /\ IF ~breaks(kind, x_attempt) /\ sleep_raises(w)
              THEN /\ x_out' = out
                   /\ x_pc' = "raised"
                   /\ UNCHANGED x_attempt
              ELSE IF breaks(kind, x_attempt) \/ ~in_range(x_attempt + 1)
              THEN /\ x_out' = after_loop(out, x_attempt, last)
                   /\ x_pc' = "done"
                   /\ UNCHANGED x_attempt
              ELSE /\ x_out' = out
                   /\ x_attempt' = x_attempt + 1
                   /\ x_pc' = "attempt"

(***************************************************************************)
(* Specification of the executor                                           *)
(***************************************************************************)
InitExec == Init

NextExec ==
    \/ \E k \in BOOLEAN : execute_begin(k) /\ UNCHANGED <<engineVars, phaseVars, secondVars, tuiVars, codecVars>>
    \/ \E kind \in Kinds \ {"429"} :
            execute_attempt(kind, -1) /\ UNCHANGED <<engineVars, phaseVars, secondVars, tuiVars, codecVars>>
    \/ \E h \in RetryAfter : execute_attempt("429", h) /\ UNCHANGED <<engineVars, phaseVars, secondVars, tuiVars, codecVars>>

SpecExec == InitExec /\ [][NextExec]_vars

(***************************************************************************)
(* The shipped phases Phase1 .. Phase5: run and the helpers of Phase         *)
(***************************************************************************)
MAX_REFINEMENT_ATTEMPTS == 3

ShippedPhases == 1 .. 5

\* phase_name_key of the shipped phase k
shipped_name(k) == phase_name_key(k - 1)

\* what one _call_llm meets:
\*   "ok"         execute returns an output without error
\*   "error"      execute returns an output whose error is set
\*   "assembly"   assemble_prompt returns an error text
\*   "exception"  assembling the prompt or getting the tool raises
\*   "raised"     execute raises (the sleep of a negative Retry-After)
CallOutcomes == {"ok", "error", "assembly", "exception", "raised"}

\* the outcomes in which llm_tool.execute was called
ReachedExecutor == {"ok", "error", "raised"}

\* what the phase finds in the text of the parsing call:
\*   "parsed"       a JSON object of the expected shape
\*   "needs_input"  a JSON object whose status is NeedsUserInput
\*   "degraded"     anything the inner try/except turns into raw storage
\*   "raise"        an exception that reaches the except clause of run
ParseOutcomes == {"parsed", "needs_input", "degraded", "raise"}

\* Phase._call_llm: the context after the call
call_llm(c, o) ==
    LET phase_for_logging == c.current_phase
    IN  IF o = "assembly"
        THEN update_status(add_log_entry(c, phase_for_logging, "ERROR"),
                           "Error", <<>>)
        ELSE IF o = "exception" \/ o = "raised"
        THEN update_status(add_log_entry(c, phase_for_logging, "CRITICAL"),
                           "Error", <<>>)
        ELSE IF o = "error"
        THEN add_log_entry(add_llm_call(c, o), phase_for_logging, "ERROR")
        ELSE add_llm_call(c, o)

\* `not llm_output or llm_output.error` on what _call_llm returned
call_failed(o) == o # "ok"

\* Phase._update_context_and_proceed
update_context_and_proceed(c, k) ==
    update_status(c, "PhaseComplete", shipped_name(k))

\* Phase._handle_error_and_halt
handle_error_and_halt(c, k) ==
    update_status(add_log_entry(c, shipped_name(k), "ERROR"),
                  "Error", shipped_name(k))

\* first_call_failed mutated: the phase is marked complete all the same
first_call_failed_proceed(c, k) ==
    update_context_and_proceed(c, k)

\* the context run returns when its first _call_llm failed
first_call_failed(c, k) ==
    IF k = 1 THEN update_status(c, "Error", shipped_name(k))
    ELSE IF k = 5 THEN handle_error_and_halt(c, k)
    ELSE c

\* the status update at the end of run
phase_final(c, k) ==
    IF k = 5 THEN update_status(c, "Complete", shipped_name(k))
    ELSE update_context_and_proceed(c, k)

\* run(context) up to its first _call_llm: Running, then the validation of
\* the inputs the phase needs (valid); Phase1 goes on without validation
\* when a user response is waiting (resp)
phase_begin(k, status, valid, resp) ==
    /\ ph_pc = "idle"
    /\ resp => k = 1
    /\ LET c0 == [ProjectContext(CallerId) EXCEPT
                      !.status = status,
                      !.current_phase = IF k = 1 THEN Initialization
                                        ELSE shipped_name(k - 1)]
           c1 == update_status(c0, "Running", shipped_name(k))
       IN  /\ ph_k' = k
           /\ ph_resp' = resp
           /\ ph_entry' = resp
           /\ ph_calls' = <<>>
           /\ ph_parse' = "none"
           /\ ph_raw' = FALSE
           /\ ph_left' = 0
           /\ IF ~resp /\ ~valid
              THEN /\ ph_ctx' = handle_error_and_halt(c1, k)
                   /\ ph_pc' = "done"
              ELSE /\ ph_ctx' = c1
                   /\ ph_pc' = "first"

\* response_after_call mutated: a response whose call failed is kept
response_after_call_keep(resp, o) == resp /\ call_failed(o)

\* context.latest_user_response = None after the call that processed the
\* response, whatever _call_llm returned
response_after_call(resp, o) == FALSE

\* the first _call_llm of run and the test of what it returned
phase_first_call(o) ==
    /\ ph_pc = "first"
    /\ ph_calls' = Append(ph_calls, o)
    /\ ph_resp' = response_after_call(ph_resp, o)
    /\ LET c == call_llm(ph_ctx, o)
       IN  IF call_failed(o)
           THEN /\ ph_ctx' = first_call_failed(c, ph_k)
                /\ ph_pc' = "done"
           ELSE /\ ph_ctx' = c
                /\ ph_pc' = "second"
    /\ UNCHANGED <<ph_k, ph_entry, ph_left, ph_parse, ph_raw>>

\* the parsing _call_llm and the handling of its text; Phase3 goes on to
\* refine the n files it parsed
phase_second_call(o, parse, n) ==
    /\ ph_pc = "second"
    /\ ph_calls' = Append(ph_calls, o)
    /\ ph_parse' = IF call_failed(o) THEN "none" ELSE parse
    /\ ph_raw' = (call_failed(o) \/ parse = "degraded")
    /\ LET c == call_llm(ph_ctx, o)
           refine == ~call_failed(o) /\ ph_k = 3 /\ parse = "parsed" /\ n > 0
       IN  /\ ph_ctx' =
                IF call_failed(o) THEN phase_final(c, ph_k)
                ELSE IF parse = "raise" THEN handle_error_and_halt(c, ph_k)
                ELSE IF ph_k = 1 /\ parse = "needs_input"
                     THEN update_status(c, "NeedsUserInput", shipped_name(ph_k))
                ELSE IF refine THEN c
                ELSE phase_final(c, ph_k)
           /\ ph_pc' = IF refine THEN "refine" ELSE "done"
           /\ ph_left' = IF refine THEN Min(n, MAX_REFINEMENT_ATTEMPTS) ELSE 0
    /\ UNCHANGED <<ph_k, ph_resp, ph_entry>>

\* one iteration of the refinement loop of Phase3: the analysis call, then
\* the sub-injection call when the analysis failed or asks for it (sub)
phase_refine(oa, sub, os) ==
    /\ ph_pc = "refine"
    /\ LET c1 == call_llm(ph_ctx, oa)
           does_sub == call_failed(oa) \/ sub
           c2 == IF does_sub THEN call_llm(c1, os) ELSE c1
       IN  /\ ph_calls' = IF does_sub THEN ph_calls \o <<oa, os>>
                          ELSE Append(ph_calls, oa)
           /\ ph_left' = ph_left - 1
           /\ IF ph_left = 1
              THEN /\ ph_ctx' = update_context_and_proceed(c2, ph_k)
                   /\ ph_pc' = "done"
              ELSE /\ ph_ctx' = c2
                   /\ ph_pc' = "refine"
    /\ UNCHANGED <<ph_k, ph_resp, ph_entry, ph_parse, ph_raw>>

\* the caller has taken the returned context
phase_return ==
    /\ ph_pc = "done"
    /\ ph_pc' = "idle"
    /\ ph_k' = 0
    /\ ph_ctx' = NoCtx
    /\ ph_resp' = FALSE
    /\ ph_entry' = FALSE
    /\ ph_left' = 0
    /\ ph_calls' = <<>>
    /\ ph_parse' = "none"
    /\ ph_raw' = FALSE

InitPhase == Init

NextPhase ==
    \/ \E k \in ShippedPhases,
          status \in {"Pending", "PhaseComplete", "NeedsUserInput"},
          valid \in BOOLEAN, resp \in BOOLEAN :
            phase_begin(k, status, valid, resp)
                /\ UNCHANGED <<engineVars, execVars, secondVars, tuiVars, codecVars>>
    \/ \E o \in CallOutcomes :
            phase_first_call(o) /\ UNCHANGED <<engineVars, execVars, secondVars, tuiVars, codecVars>>
    \/ \E o \in CallOutcomes, parse \in ParseOutcomes, n \in 0 .. MaxFiles :
            phase_second_call(o, parse, n)
                /\ UNCHANGED <<engineVars, execVars, secondVars, tuiVars, codecVars>>
    \/ \E oa \in CallOutcomes, sub \in BOOLEAN, os \in CallOutcomes :
            phase_refine(oa, sub, os)
                /\ UNCHANGED <<engineVars, execVars, secondVars, tuiVars, codecVars>>
    \/ phase_return /\ UNCHANGED <<engineVars, execVars, secondVars, tuiVars, codecVars>>

SpecPhase == InitPhase /\ [][NextPhase]_vars

(***************************************************************************)
(* Properties                                                              *)
(***************************************************************************)
Last(s) == s[Len(s)]

\* the running or last call gave a context back to its caller
Returned == pc = "idle" /\ result.outcome = "returned"

\* the index of the first phase of the call: the one it invoked first, or
\* the one it is about to invoke; -1 when there is none
FirstTarget ==
    IF call.invoked # <<>> THEN call.invoked[1]
    ELSE IF pc \in {"loop", "run"} THEN idx
    ELSE -1

\* the call is a resume that loaded the context of a phase of the sequence
ResumedAt(i, status) ==
    /\ call.kind = "resume"
    /\ call.loaded # NoCtx
    /\ call.loaded.current_phase = phase_name_key(i)
    /\ call.loaded.status = status

\* C1: a resume that loaded current_phase = name of phase i starts at phase
\* i+1 when the loaded status is PhaseComplete and at phase i when it is
\* NeedsUserInput: no other phase is the first one it invokes.
C1_ResumeDeterminism ==
    \A i \in PhaseIdx :
        /\ ResumedAt(i, "PhaseComplete") /\ FirstTarget # -1 => FirstTarget = i + 1
        /\ ResumedAt(i, "NeedsUserInput") /\ FirstTarget # -1 => FirstTarget = i

\* C1 witness: a resume of a PhaseComplete context has invoked the next phase
C1_Witness ==
    \E i \in PhaseIdx :
        /\ ResumedAt(i, "PhaseComplete")
        /\ call.invoked # <<>>
        /\ call.invoked[1] = i + 1

\* every attempt made so far failed with a retryable failure
AllRetryable ==
    /\ x_trace # <<>>
    /\ \A k \in 1 .. Len(x_trace) : x_trace[k] \in Retryable

C3_SuccessIffAnAttemptSucceeded ==
    x_pc = "done" /\ x_trace # <<>> =>
        /\ x_out.error = "None" <=> \E k \in 1 .. Len(x_trace) : x_trace[k] = "ok"
        /\ Last(x_trace) = "ok" => x_out.text = TextOf(Len(x_trace) - 1)

\* C4: an HTTP error whose status is neither 429 nor 5xx ends the execution:
\* it is the last attempt and the output has error set.
C4_NoRetryOfPermanentErrors ==
    \A k \in 1 .. Len(x_trace) :
        x_trace[k] = "4xx" =>
            /\ k = Len(x_trace)
            /\ x_pc = "done"
            /\ x_out.error # "None"

\* C4 witness: the first attempt fails with a client error
C4_Witness ==
    /\ x_trace = <<"4xx">>
    /\ x_pc = "done"
    /\ x_out.error = "API Request Failed"

\* the statuses the engine knows how to continue from
KnownStatus == {"Error", "NeedsUserInput", "PhaseComplete"}

\* C5: when a phase returns a status that is none of Error, NeedsUserInput,
\* PhaseComplete, it is the last phase invoked in that call, the engine does
\* not go back to the loop, and the state it returns has status Error.
C5_StatusContractEnforcement ==
    \A k \in 1 .. Len(call.returns) :
        call.returns[k] \notin KnownStatus \cup {"raise"} =>
            /\ k = Len(call.returns)
            /\ pc \in {"returned", "saved", "idle"}
            /\ Returned => result.ctx.status = "Error"

\* C5 witness: a phase returned Running and the call has returned
C5_Witness ==
    /\ Returned
    /\ call.returns # <<>>
    /\ Last(call.returns) = "Running"
    /\ result.ctx.status = "Error"

\* the sequence <<a, a+1, ..., b>>
Range(a, b) == [k \in 1 .. (b - a + 1) |-> a + k - 1]

\* C6: (first call) when the first phase returns PhaseComplete and the
\* second NeedsUserInput, no later phase is invoked, NeedsUserInput is
\* returned and the persisted state is the second phase's NeedsUserInput;
\* (resume) the call that loads that state invokes the second phase first;
\* when every phase from the second to the last then returns PhaseComplete
\* the returned status is Complete.
C6_EndToEnd ==
    /\ ( /\ call.kind = "fresh"
         /\ Len(call.returns) >= 2
         /\ call.returns[1] = "PhaseComplete"
         /\ call.returns[2] = "NeedsUserInput" )
       => /\ call.invoked = <<0, 1>>
          /\ pc \in {"returned", "saved", "idle"}
          /\ Returned =>
                /\ result.ctx.status = "NeedsUserInput"
                /\ store[call.id].status = "NeedsUserInput"
                /\ store[call.id].current_phase = phase_name_key(1)
    /\ ResumedAt(1, "NeedsUserInput") =>
          /\ call.invoked # <<>> => call.invoked[1] = 1
          /\ ( /\ Returned
               /\ Len(call.returns) = NumPhases - 1
               /\ \A k \in 1 .. Len(call.returns) :
                      call.returns[k] = "PhaseComplete" )
             => /\ call.invoked = Range(1, NumPhases - 1)
                /\ result.ctx.status = "Complete"

\* C6 witness: the resume of the scenario has returned Complete
C6_Witness ==
    /\ ResumedAt(1, "NeedsUserInput")
    /\ Returned
    /\ call.invoked = Range(1, NumPhases - 1)
    /\ result.ctx.status = "Complete"

\* C7: a call in which the last phase returned PhaseComplete returns status
\* Complete; a call returns status Complete only if the last phase has
\* returned PhaseComplete for that run.
C7_CompleteIffLastPhaseCompleted ==
    /\ ( /\ Returned
         /\ call.invoked # <<>>
         /\ Last(call.invoked) = NumPhases - 1
         /\ Last(call.returns) = "PhaseComplete" )
       => result.ctx.status = "Complete"
    /\ Returned /\ result.ctx.status = "Complete" => done[result.ctx.project_id]

\* C7 witness: the last phase returned PhaseComplete, the call Complete
C7_Witness ==
    /\ Returned
    /\ call.invoked # <<>>
    /\ Last(call.invoked) = NumPhases - 1
    /\ Last(call.returns) = "PhaseComplete"
    /\ result.ctx.status = "Complete"

\* C8: a resume that loaded a context whose status is Error, whatever its
\* current_phase, invokes no phase, saves nothing and returns the loaded
\* context unchanged.
C8_ErrorIsNotResumed ==
    call.kind = "resume" /\ call.loaded # NoCtx /\ call.loaded.status = "Error" =>
        /\ call.invoked = <<>>
        /\ call.saves = 0
        /\ pc = "idle"
        /\ Returned => result.ctx = call.loaded

IsPrefix(s, t) ==
    /\ Len(s) <= Len(t)
    /\ \A k \in 1 .. Len(s) : s[k] = t[k]

\* the step is a fresh start, which begins a new run under its id
FreshStep == ncalls' # ncalls /\ call'.kind = "fresh"

\* C11: within a run (across phase invocations, saves, returns, crashes and
\* resumes) every change of the persisted state keeps the persisted
\* llm_call_history and error_log as prefixes of the new ones.
C11_AppendOnly ==
    [][ \A id \in Ids :
          store[id] # NoCtx /\ ~FreshStep =>
              /\ store'[id] # NoCtx
              /\ IsPrefix(store[id].llm_call_history, store'[id].llm_call_history)
              /\ IsPrefix(store[id].error_log, store'[id].error_log) ]_vars

\* C11 witness: a resume has persisted a longer history and a longer log
\* than the ones it loaded
C11_Witness ==
    /\ call.kind = "resume"
    /\ call.loaded # NoCtx
    /\ Len(call.loaded.llm_call_history) = 1
    /\ Len(store[call.id].llm_call_history) = 2
    /\ Len(store[call.id].error_log) > Len(call.loaded.error_log)

\* the handler's step from a position where an exception is in flight: the
\* call returns the state, with one more log entry that carries `name`,
\* status Error, the state persisted and no phase invoked
HandledAs(name) ==
    /\ pc' = "idle"
    /\ result'.outcome = "returned"
    /\ result'.ctx.error_log =
           Append(ctx.error_log, [phase |-> name, level |-> "CRITICAL"])
    /\ result'.ctx.status = "Error"
    /\ store'[call.id] = result'.ctx
    /\ call'.invoked = call.invoked

\* an exception is in flight and the process goes on
ExceptionStep ==
    /\ pc \in {"raised", "raised_init"}
    /\ pc' # pc
    /\ result'.outcome # "crashed"

C13_ExecuteNeverRaises ==
    /\ x_pc # "raised"
    /\ (x_pc = "done" /\ \A k \in 1 .. Len(x_trace) : x_trace[k] # "ok")
           => x_out.error # "None"

\* C14: on every return path of run of a shipped phase Phase1 .. Phase5 the
\* returned state's status is PhaseComplete, NeedsUserInput or Error, and
\* is never Running
C14_PhaseContract ==
    ph_pc = "done" =>
        ph_ctx.status \in {"PhaseComplete", "NeedsUserInput", "Error"}

\* C15: every state run_workflow returns, on a fresh start or a resume, has
\* status Complete, NeedsUserInput or Error
C15_ReturnedStatus ==
    Returned => result.ctx.status \in {"Complete", "NeedsUserInput", "Error"}

\* C15 witness: a resume has run a phase that left the status Running and
\* has returned a state
C15_Witness ==
    /\ Returned
    /\ call.kind = "resume"
    /\ call.returns # <<>>
    /\ Last(call.returns) = "Running"
    /\ result.ctx.status = "Error"

\* C16: a resume of a run whose persisted status is Complete invokes no
\* phase and leaves the persisted state as it was
C16_CompleteIsTerminal ==
    (call.kind = "resume" /\ call.loaded.status = "Complete") =>
        /\ call.invoked = <<>>
        /\ store[call.id] = call.loaded

\* C17: two run_workflow calls on the same run identifier never execute a
\* phase of that run at the same time, and a resume issued while a call on
\* the identifier is in progress is rejected: it never gets into the loop
C17_OnePhaseAtATime ==
    /\ ~(pc = "run" /\ pc2 = "run" /\ ctx.project_id = ctx2.project_id)
    /\ (pc # "idle" /\ pc2 # "idle") => ctx.project_id # ctx2.project_id

\* C18: a fresh start without an initial request raises ValueError, invokes
\* no phase and saves nothing; with a request it creates a state with
\* status Pending, empty call history and error log and the caller's run
\* id, persists it before any phase is invoked, and the first phase it
\* invokes is the one at index 0
C18_FreshStart ==
    [][ /\ call'.kind = "fresh" /\ call'.invoked # <<>> => call'.invoked[1] = 0
        /\ FreshStep =>
             IF call'.request = ""
             THEN /\ pc' = "idle"
                  /\ result'.outcome = "ValueError"
                  /\ call'.invoked = <<>>
                  /\ call'.saves = 0
                  /\ store' = store
             ELSE /\ \E id \in Ids :
                       /\ call'.id = id
                       /\ ctx' = [project_id |-> id, status |-> "Pending",
                                  current_phase |-> Initialization,
                                  llm_call_history |-> <<>>, error_log |-> <<>>,
                                  latest_user_response |-> ""]
                       /\ store'[id] = ctx'
                  /\ call'.invoked = <<>>
                  /\ pc' = "loop"
                  /\ idx' = 0 ]_vars

\* C18 witness: a fresh start has invoked the phase at index 0 while the
\* file still holds the state of the initial save
C18_Witness ==
    /\ call.kind = "fresh"
    /\ call.request # ""
    /\ call.invoked = <<0>>
    /\ store[call.id].status = "Pending"
    /\ store[call.id].current_phase = Initialization

\* the step is the entry of a run_workflow call with resume=True
ResumeStep == ncalls' # ncalls /\ call'.kind = "resume"

\* C19: a resume without a run identifier raises ValueError; a resume of an
\* identifier with no persisted state raises FileNotFoundError; in both
\* cases no phase is invoked and no state is created or saved
C19_ResumeOfNothing ==
    [][ ResumeStep =>
          /\ call'.id = "" =>
                /\ result'.outcome = "ValueError"
                /\ pc' = "idle"
                /\ call'.invoked = <<>>
                /\ call'.saves = 0
                /\ store' = store
          /\ (call'.id # "" /\ store[call'.id] = NoCtx) =>
                /\ result'.outcome = "FileNotFoundError"
                /\ pc' = "idle"
                /\ call'.invoked = <<>>
                /\ call'.saves = 0
                /\ store' = store ]_vars

\* C19 witness: a resume of an identifier that has no persisted state has
\* ended with FileNotFoundError
C19_Witness ==
    /\ pc = "idle"
    /\ call.kind = "resume"
    /\ call.id # ""
    /\ store[call.id] = NoCtx
    /\ result.outcome = "FileNotFoundError"
    /\ call.invoked = <<>>

\* C20: once a phase has returned NeedsUserInput or Error, the call invokes
\* no phase of a greater index, and the state it returns and the state on
\* disk both carry that phase's name as current_phase
C20_HaltAtPhase ==
    /\ \A k \in 1 .. Len(call.returns) :
          call.returns[k] \in {"NeedsUserInput", "Error"} =>
              \A j \in 1 .. Len(call.invoked) :
                  j > k => call.invoked[j] <= call.invoked[k]
    /\ (Returned /\ call.returns # <<>>
            /\ Last(call.returns) \in {"NeedsUserInput", "Error"}) =>
          /\ result.ctx.current_phase = phase_name_key(Last(call.invoked))
          /\ store[call.id].current_phase = phase_name_key(Last(call.invoked))
          /\ result.ctx.status = Last(call.returns)

\* C20 witness: the second phase returned NeedsUserInput, a third phase
\* exists, and the call has returned
C20_Witness ==
    /\ Returned
    /\ call.invoked = <<0, 1>>
    /\ call.returns = <<"PhaseComplete", "NeedsUserInput">>
    /\ NumPhases > 2
    /\ result.ctx.current_phase = phase_name_key(1)

\* C21: when the caller resumes a run halted in NeedsUserInput and supplies
\* input, the state passed to the re-entered phase has that input as its
\* latest_user_response
C21_InputReachesPhase ==
    (/\ current_context.latest_user_response # ""
     /\ call.kind = "resume"
     /\ call.id = current_context.project_id
     /\ call.loaded.status = "NeedsUserInput"
     /\ call.invoked # <<>>)
        => call.seen[1] = current_context.latest_user_response

\* C22: every output execute returns, whatever the outcome, has its latency
\* set to the time measured over the attempts
C22_LatencyAlwaysSet ==
    x_pc = "done" => x_out.latency_ms = "measured"

\* the attempts that were followed by a wait, numbered from 1
Waited == 1 .. Len(x_waits)

\* C23: after a retryable server error, timeout or connection error on the
\* attempt numbered k = 0, 1, 2 the wait, jitter apart, is
\* min(INITIAL_BACKOFF_SECS * 2^k, MAX_BACKOFF_SECS), which is 1, 2, 4 seconds:
\* non-decreasing in k and never above the cap
C23_BackoffMonotone ==
    \A j \in Waited :
        x_trace[j] \in {"5xx", "noresp", "timeout", "conn"} =>
            /\ x_waits[j] = Min(INITIAL_BACKOFF_SECS * (2 ^ (j - 1)), MAX_BACKOFF_SECS)
            /\ x_waits[j] = <<1, 2, 4>>[j]
            /\ x_waits[j] <= MAX_BACKOFF_SECS
            /\ \A i \in Waited :
                  (i < j /\ x_trace[i] \in {"5xx", "noresp", "timeout", "conn"})
                      => x_waits[i] <= x_waits[j]

\* C23 witness: a server error, a timeout and a connection error were each
\* followed by a wait, and the fourth attempt ended the call
C23_Witness ==
    /\ x_pc = "done"
    /\ x_trace = <<"5xx", "timeout", "conn", "5xx">>
    /\ x_waits = <<1, 2, 4>>

C25_NoRetryOfLogicalFailures ==
    \A j \in 1 .. Len(x_trace) :
        x_trace[j] \in {"logical", "notimpl", "other"} =>
            /\ j = Len(x_trace)
            /\ Len(x_waits) = j - 1
            /\ x_pc = "done"
            /\ x_out.error # "None"
            /\ x_trace[j] = "logical" =>
                  /\ x_out.error = "tool error"
                  /\ x_out.text = TextOf(j - 1)
                  /\ x_out.raw_response = TextOf(j - 1)
                  /\ x_out.finish_reason = TextOf(j - 1)

\* C25 witness: the second attempt, made after a server error, returned a
\* Response carrying an error and the call returned it
C25_Witness ==
    /\ x_pc = "done"
    /\ x_trace = <<"5xx", "logical">>
    /\ x_out.error = "tool error"
    /\ x_out.text = TextOf(1)

\* C26: a context loaded after it was saved equals the saved one; dates,
\* datetimes and UUIDs in the free-form maps keep their type and value, and
\* maps holding the keys used as type tags come back unaltered
C26_RoundTrip ==
    rt_pc = "loaded" => rt_out = rt_in

\* C27: when a phase has returned a status the engine does not recognise,
\* the state that run_workflow returns has status Error, its error log has
\* one more entry, which names that phase, and it is the persisted state
C27_UnexpectedStatusIsLogged ==
    [][ ( /\ pc = "saved"
          /\ ctx.status \notin KnownStatus
          /\ result'.outcome = "returned"
          /\ pc' = "idle" )
        => /\ result'.ctx.status = "Error"
           /\ Len(result'.ctx.error_log) = Len(ctx.error_log) + 1
           /\ Last(result'.ctx.error_log).phase = phase_name_key(idx)
           /\ store'[call.id] = result'.ctx ]_vars

\* C28: whenever run_workflow returns a state with status Complete, the
\* persisted state of that run has status Complete, both when the last phase
\* completed in the loop and when a resume found the loaded state
\* PhaseComplete at the last phase
C28_CompleteIsPersisted ==
    Returned /\ result.ctx.status = "Complete"
        => store[result.ctx.project_id].status = "Complete"

\* C29: in every state persisted or returned after a phase was attempted,
\* current_phase is the phase_name_key of the phase attempted last
C29_CurrentPhaseIsLastAttempted ==
    [][ /\ (pc = "returned" /\ pc' = "saved")
            => store'[call.id].current_phase = phase_name_key(idx)
        /\ ( /\ pc \in {"saved", "raised", "raised_init"}
             /\ pc' = "idle"
             /\ result'.outcome = "returned" )
            => /\ result'.ctx.current_phase = phase_name_key(idx)
               /\ store'[call.id].current_phase = phase_name_key(idx) ]_vars

\* the status Phase5.run leaves when it finishes its work without raising
Phase5Status == phase_final(ProjectContext(CallerId), 5).status

\* C30: a fresh run in which every phase before the last returns
\* PhaseComplete and the last phase finishes as Phase5.run does returns a
\* state with status Complete
C30_ShippedRunCompletes ==
    ( /\ Returned
      /\ call.kind = "fresh"
      /\ Len(call.returns) = NumPhases
      /\ \A k \in 1 .. NumPhases - 1 : call.returns[k] = "PhaseComplete"
      /\ call.returns[NumPhases] = Phase5Status )
    => result.ctx.status = "Complete"

\* C31: over starts, resumes and crashes of one run, a phase j > 0 is
\* invoked only after phase j-1 returned PhaseComplete for that run and that
\* state was persisted; a resume starts no further than the phase after the
\* last persisted completed phase, and reports Complete without running a
\* phase only when the last phase's PhaseComplete state was persisted
C31_NoPhaseSkipped ==
    /\ \A k \in 1 .. Len(call.invoked) :
          call.invoked[k] > 0 => (call.invoked[k] - 1) \in completed[call.id]
    /\ (call.kind = "resume" /\ FirstTarget > 0)
          => (FirstTarget - 1) \in completed[call.id]
    /\ ( /\ Returned
         /\ call.kind = "resume"
         /\ call.invoked = <<>>
         /\ result.ctx.status = "Complete" )
       => (NumPhases - 1) \in completed[call.id]

\* C31 witness: the process stopped after the first phase's PhaseComplete
\* state was saved, and the resume invoked the second phase first
C31_Witness ==
    /\ call.kind = "resume"
    /\ call.loaded.status = "PhaseComplete"
    /\ call.loaded.current_phase = phase_name_key(0)
    /\ call.invoked # <<>>
    /\ call.invoked[1] = 1
    /\ 0 \in completed[call.id]

\* C32: in each shipped phase, when the first call succeeds and the parsing
\* call fails or its text cannot be interpreted, the phase stores the raw
\* text of the first call in the state and returns PhaseComplete, the status
\* on which the engine moves on to the next phase
C32_DegradedParsingCompletes ==
    ( /\ ph_pc = "done"
      /\ Len(ph_calls) = 2
      /\ ph_calls[1] = "ok"
      /\ (call_failed(ph_calls[2]) \/ ph_parse = "degraded") )
    => /\ ph_raw
       /\ ph_ctx.status = "PhaseComplete"

\* C33: in every shipped phase, when the first call of the phase returns an
\* output with error set, the phase makes no further call, and the engine
\* halts at that phase: the status the phase leaves does not move the engine
\* on, and the state run_workflow returns for it has status Error and
\* current_phase the phase's name
C33_FirstCallErrorHalts ==
    (ph_pc = "done" /\ ph_calls # <<>> /\ ph_calls[1] = "error") =>
        /\ Len(ph_calls) = 1
        /\ ph_ctx.status # "PhaseComplete"
        /\ halt_context(ph_ctx, shipped_name(ph_k)).status = "Error"
        /\ halt_context(ph_ctx, shipped_name(ph_k)).current_phase = shipped_name(ph_k)

\* C33 witness: Phase2.run returned after its first call came back with an
\* error, with the status still Running
C33_Witness ==
    /\ ph_pc = "done"
    /\ ph_k = 2
    /\ ph_calls = <<"error">>
    /\ ph_ctx.status = "Running"
    /\ halt_context(ph_ctx, shipped_name(ph_k)).status = "Error"

\* C34: every call of _call_llm that reaches the executor appends exactly
\* one record to the call history, whether the output is ok or failed; a
\* call that does not reach it leaves the history alone, appends one entry
\* to the error log and sets status Error
C34_OneRecordPerExecutorCall ==
    /\ Len(ph_ctx.llm_call_history)
          = Cardinality({j \in 1 .. Len(ph_calls) : ph_calls[j] \in ReachedExecutor})
    /\ ph_pc \in {"first", "second", "refine"} =>
          \A o \in CallOutcomes :
              IF o \in ReachedExecutor
              THEN /\ Len(call_llm(ph_ctx, o).llm_call_history)
                          = Len(ph_ctx.llm_call_history) + 1
                   /\ IsPrefix(ph_ctx.llm_call_history,
                               call_llm(ph_ctx, o).llm_call_history)
              ELSE /\ call_llm(ph_ctx, o).llm_call_history = ph_ctx.llm_call_history
                   /\ Len(call_llm(ph_ctx, o).error_log) = Len(ph_ctx.error_log) + 1
                   /\ call_llm(ph_ctx, o).status = "Error"

\* C35: a fresh start loads nothing; when its run id already has a persisted
\* state, the initial save replaces that state with a new one whose status
\* is Pending and whose call history and error log are empty, and the first
\* phase is constructed and entered on that state
C35_FreshStartOverwrites ==
    ( /\ call.kind = "fresh"
      /\ call.replaced
      /\ call.invoked = <<>>
      /\ pc \in {"loop", "run", "raised_init"} )
    => /\ call.loaded = NoCtx
       /\ store[call.id].project_id = call.id
       /\ store[call.id].status = "Pending"
       /\ store[call.id].llm_call_history = <<>>
       /\ store[call.id].error_log = <<>>
       /\ ctx = store[call.id]

\* C35 witness: the second call is a fresh start under an id whose file
\* existed, and the file now holds the new Pending state
C35_Witness ==
    /\ call.kind = "fresh"
    /\ call.replaced
    /\ ncalls = 2
    /\ pc = "run"
    /\ call.invoked = <<>>
    /\ store[call.id].status = "Pending"

\* the call is a resume that loaded a state whose current_phase names phase
\* i and whose status is neither PhaseComplete nor Error
ResumedInside(i) ==
    /\ call.kind = "resume"
    /\ call.loaded # NoCtx
    /\ KeyIndex(call.loaded.current_phase) = i
    /\ call.loaded.status \notin {"PhaseComplete", "Error"}

C37_FailedSaveDoesNotStop ==
    call.failed > 0 =>
        /\ pc = "idle" => result.outcome = "returned"
        /\ (pc \in {"loop", "run", "raised_init"} /\ call.invoked # <<>>) =>
              /\ idx = Last(call.invoked) + 1
              /\ Last(call.returns) = "PhaseComplete"
              /\ ctx.status = "PhaseComplete"
              /\ ctx.current_phase = phase_name_key(Last(call.invoked))
        /\ (Returned /\ call.returns # <<>>) =>
              /\ ( /\ Last(call.returns) = "PhaseComplete"
                   /\ Last(call.invoked) = NumPhases - 1 )
                 => result.ctx.status = "Complete"
              /\ Last(call.returns) = "NeedsUserInput"
                 => result.ctx.status = "NeedsUserInput"
              /\ result.ctx.status = "Error" =>
                    \/ Last(call.returns) \notin {"PhaseComplete", "NeedsUserInput"}
                    \/ result.ctx.current_phase = index_name(Last(call.invoked) + 1)
              /\ result.ctx.error_log # <<>> =>
                    Last(result.ctx.error_log).level = "CRITICAL"

\* C37 witness: the saves after the first and the second phase both failed,
\* the second phase was entered all the same, and the call returned
\* NeedsUserInput while the file holds another state
C37_Witness ==
    /\ Returned
    /\ call.failed = 2
    /\ call.invoked = <<0, 1>>
    /\ call.returns = <<"PhaseComplete", "NeedsUserInput">>
    /\ result.ctx.status = "NeedsUserInput"
    /\ store[call.id] # result.ctx

\* the waits of the call during which execute slept: time.sleep raises on
\* a negative length without sleeping
Slept ==
    IF x_pc = "raised" THEN SubSeq(x_waits, 1, Len(x_waits) - 1) ELSE x_waits

\* C38: execute waits only between attempts: while the loop runs every
\* attempt made was followed by one wait, and a call that has ended after
\* at least one attempt slept one wait fewer than it made attempts, at most
\* MAX_RETRIES; no wait follows the attempt number MAX_RETRIES + 1 nor an
\* outcome that is not retried
C38_WaitsOnlyBetweenAttempts ==
    /\ x_pc = "attempt" => Len(x_waits) = Len(x_trace)
    /\ (x_pc \in {"done", "raised"} /\ x_trace # <<>>) =>
          /\ Len(Slept) = Len(x_trace) - 1
          /\ Len(Slept) <= MAX_RETRIES
    /\ Len(x_trace) <= MAX_RETRIES + 1
    /\ \A j \in 1 .. Len(x_trace) :
          (x_trace[j] \notin Retryable \/ j = MAX_RETRIES + 1) =>
              /\ j = Len(x_trace)
              /\ x_pc = "done"
              /\ Len(x_waits) = j - 1

\* C38 witness: four attempts failed with a server error and the call
\* returned after three waits
C38_Witness ==
    /\ x_pc = "done"
    /\ x_trace = <<"5xx", "5xx", "5xx", "5xx">>
    /\ Len(x_waits) = MAX_RETRIES
    /\ x_out.error # "None"

\* C39: a user response is consumed at most once: when Phase1.run was
\* entered with latest_user_response set, the field is cleared once the call
\* processing it has been made and in the state run returns, whether the
\* call or the parsing succeeded or failed, so that a run entered with the
\* returned state takes the branch of the initial request
C39_ResponseConsumedOnce ==
    /\ (ph_entry /\ ph_pc \in {"second", "done"}) =>
          /\ ph_k = 1
          /\ ph_calls # <<>>
          /\ ~ph_resp
    /\ ph_resp => (ph_entry /\ ph_pc = "first" /\ ph_calls = <<>>)

\* C39 witness: Phase1.run was entered with a response, the call processing
\* it failed, and the state returned has status Error and no response
C39_Witness ==
    /\ ph_pc = "done"
    /\ ph_k = 1
    /\ ph_entry
    /\ ph_calls = <<"error">>
    /\ ph_ctx.status = "Error"
    /\ ~ph_resp

====
